---- MODULE Spec2Model ----
(***************************************************************************)
(* Model of src/src/index.js: the SNS-triggered Lambda that sends an email *)
(* verification link through SES and tracks the dispatch in DynamoDB.      *)
(*                                                                         *)
(* Strings are sequences of one-character strings, so that                 *)
(* encodeURIComponent and the template literal of the verification link    *)
(* are computed character by character.  Times are milliseconds since the  *)
(* epoch (Date.now()).  Each delivery of an SNS event is one invocation of *)
(* exports.handler; invocations interleave at their awaits.                *)
(***************************************************************************)
EXTENDS Integers, Sequences, FiniteSets, Bags, TLC

\* === bounds ===
MaxDeliveries == 2
MaxTicks == 1

\* === program constants ===
\* process.env.DOMAIN || 'dev.ritimoradiya.me'
DomainName ==
  <<"d","e","v",".","r","i","t","i","m","o","r","a","d","i","y","a",".","m","e">>

\* (60 * 60 * 24) in trackEmailSent
TTL_SECONDS == 60 * 60 * 24

\* === input sets ===
EmailA == <<"a","@","b",".","c","o","m">>
EmailB == <<"j","+","k","@","x",".","i","o">>
Emails == {EmailA, EmailB}

NoToken == <<>>
WebappToken == <<"T","1">>

\* Mutant: every call returns the same value.
uuidv4_fixed(n) == <<"u", "1">>

\* uuidv4(): a random version-4 UUID; the n-th call returns a value that no
\* other call returns.
uuidv4(n) == <<"u", <<"1","2","3","4","5","6","7","8","9">>[n]>>

Undefined == <<"undefined">>
MalformedMessage == [wellFormed |-> FALSE]

\* The Sns.Message payloads the platform may deliver: text that JSON.parse
\* rejects, or the JSON text of an object {email, firstName, token?}.
Messages ==
  {MalformedMessage}
  \cup {[wellFormed |-> TRUE, email |-> EmailA, firstName |-> <<"A","n","n">>,
         token |-> WebappToken]}
  \cup {[wellFormed |-> TRUE, email |-> EmailB, firstName |-> <<"J","o">>,
         token |-> NoToken]}

StartMs == 1500
TickSteps == {(TTL_SECONDS + 1) * 1000}

Invocations == 1..MaxDeliveries

\* === strings ===
RECURSIVE Concat(_)
Concat(parts) ==
  IF parts = <<>> THEN <<>> ELSE Head(parts) \o Concat(Tail(parts))

Unreserved ==
  {"a","b","c","d","e","f","g","h","i","j","k","l","m","n","o","p","q","r",
   "s","t","u","v","w","x","y","z","A","B","C","D","E","F","G","H","I","J",
   "K","L","M","N","O","P","Q","R","S","T","U","V","W","X","Y","Z",
   "0","1","2","3","4","5","6","7","8","9","-","_",".","!","~","*","'","(",")"}

PercentEncode(c) ==
  CASE c = "@" -> <<"%","4","0">>
    [] c = "+" -> <<"%","2","B">>
    [] c = "&" -> <<"%","2","6">>
    [] c = "=" -> <<"%","3","D">>
    [] c = "?" -> <<"%","3","F">>
    [] c = "/" -> <<"%","2","F">>
    [] c = " " -> <<"%","2","0">>

\* Mutant: the email is put into the link as it is.
encodeURIComponent_raw(s) == s

RECURSIVE encodeURIComponent(_)
encodeURIComponent(s) ==
  IF s = <<>> THEN <<>>
  ELSE (IF Head(s) \in Unreserved THEN <<Head(s)>> ELSE PercentEncode(Head(s)))
       \o encodeURIComponent(Tail(s))

\* `https://${DOMAIN}/v1/user/verify?email=${encodeURIComponent(email)}&token=${token}`
verificationLink(email, token) ==
  Concat(<< <<"h","t","t","p","s",":","/","/">>,
            DomainName,
            <<"/","v","1","/","u","s","e","r","/","v","e","r","i","f","y",
              "?","e","m","a","i","l","=">>,
            encodeURIComponent(email),
            <<"&","t","o","k","e","n","=">>,
            token >>)

\* === pure code pieces ===
\* Mutant: an unparsable message is treated as an empty registration.
ParseMessage_lenient(msg) ==
  IF msg.wellFormed
  THEN [ok |-> TRUE, email |-> msg.email, firstName |-> msg.firstName]
  ELSE [ok |-> TRUE, email |-> EmailA, firstName |-> Undefined]

\* JSON.parse(event.Records[0].Sns.Message) followed by the destructuring
\* const { email, firstName, lastName } = snsMessage
ParseMessage(msg) ==
  IF msg.wellFormed
  THEN [ok |-> TRUE, email |-> msg.email, firstName |-> msg.firstName]
  ELSE [ok |-> FALSE, email |-> Undefined, firstName |-> Undefined]

\* const token = uuidv4();  (the message's own token is never read)
IssueToken(msg, uuid) == uuid

\* Mutant: off-by-one on the number of Items.
IsDuplicate_moreThanOne(queryOk, items) ==
  IF queryOk THEN Len(items) > 1 ELSE FALSE

\* Mutant: the catch block answers "duplicate" (fail closed).
IsDuplicate_failClosed(queryOk, items) ==
  IF queryOk THEN Len(items) > 0 ELSE TRUE

\* Mutant: the guard never reports a duplicate.
IsDuplicate_never(queryOk, items) == FALSE

\* checkDuplicateEmail: result.Items && result.Items.length > 0, and
\* false when the query rejects
IsDuplicate(queryOk, items) ==
  IF queryOk THEN Len(items) > 0 ELSE FALSE

\* Mutant: trackEmailSent stores a token of its own instead of its argument.
TrackItem_ownToken(email, token, nowMs) ==
  [email |-> email, token |-> uuidv4(9), sentAt |-> nowMs,
   ttl |-> (nowMs \div 1000) + TTL_SECONDS]

\* Mutant: the ttl is the 60 seconds of the link's validity.
TrackItem_60s(email, token, nowMs) ==
  [email |-> email, token |-> token, sentAt |-> nowMs,
   ttl |-> (nowMs \div 1000) + 60]

\* Mutant: Math.round instead of Math.floor.
TrackItem_round(email, token, nowMs) ==
  [email |-> email, token |-> token, sentAt |-> nowMs,
   ttl |-> ((nowMs + 500) \div 1000) + TTL_SECONDS]

\* the Item of trackEmailSent, built from the clock: sentAt is the instant
\* that new Date().toISOString() renders (kept as its millisecond value),
\* ttl is Math.floor(Date.now() / 1000) + (60 * 60 * 24)
TrackItem(email, token, nowMs) ==
  [email |-> email, token |-> token, sentAt |-> nowMs,
   ttl |-> (nowMs \div 1000) + TTL_SECONDS]

AlreadySent == [statusCode |-> 200, message |-> "Email already sent"]
SentSuccessfully == [statusCode |-> 200, message |-> "Email sent successfully"]
NoResult == [statusCode |-> 0, message |-> "none"]

NoRecord == [email |-> Undefined, token |-> <<>>, sentAt |-> 0, ttl |-> 0]
NoItem == NoRecord

\* === state ===
VARIABLES
  inv,      \* per delivery: the handler invocation's locals and position
  store,    \* the DynamoDB table: its Items, primary key email
  outbox,   \* the emails SES accepted (a bag)
  written,  \* the Items DynamoDB accepted (a bag)
  now,      \* Date.now()
  ticks     \* number of clock advances so far

vars == <<inv, store, outbox, written, now, ticks>>

Terminal == {"returned", "thrown"}

IdleInvocation ==
  [pc |-> "idle", message |-> MalformedMessage,
   email |-> Undefined, firstName |-> Undefined,
   parseStatus |-> "none", queryStatus |-> "none",
   sendStatus |-> "none", putStatus |-> "none",
   found |-> 0, hadRecord |-> FALSE, isDuplicate |-> FALSE,
   token |-> <<>>, link |-> <<>>, item |-> NoItem,
   calls |-> <<>>, result |-> NoResult, error |-> "none",
   after |-> {}]

Init ==
  /\ inv = [i \in Invocations |-> IdleInvocation]
  /\ store = {}
  /\ outbox = EmptyBag
  /\ written = EmptyBag
  /\ now = StartMs
  /\ ticks = 0

\* the Items of the table stored under the key email
RecordsFor(email) == {r \in store : r.email = email}

RECURSIVE SetToSeq(_)
SetToSeq(S) ==
  IF S = {} THEN <<>>
  ELSE LET x == CHOOSE y \in S : TRUE IN <<x>> \o SetToSeq(S \ {x})

\* Items returned by the Query on the partition key
Items(email) == SetToSeq(RecordsFor(email))

\* Mutant: the table keeps every Item it is given (no replacement by key).
Put_append(table, item) == table \cup {item}

\* PutCommand on a table whose primary key is email: the Item replaces the
\* Item stored under the same key, if any.
Put(table, item) ==
  {r \in table : r.email # item.email} \cup {item}

\* === actions ===
\* exports.handler is invoked with an event; the message is parsed and, if
\* that succeeds, the duplicate query is issued.  A parse error is caught,
\* logged and rethrown.
Invoke(i, msg) ==
  /\ inv[i].pc = "idle"
  /\ \A j \in Invocations : j < i => inv[j].pc # "idle"
  /\ LET p == ParseMessage(msg)
         base == [inv[i] EXCEPT
                    !.message = msg,
                    !.after = {j \in Invocations : /\ inv[j].pc \in Terminal
                                                   /\ p.ok
                                                   /\ inv[j].email = p.email}]
     IN  inv' = [inv EXCEPT ![i] =
           IF p.ok
           THEN [base EXCEPT !.parseStatus = "ok", !.email = p.email,
                             !.firstName = p.firstName, !.pc = "query"]
           ELSE [base EXCEPT !.parseStatus = "error", !.error = "parse",
                             !.pc = "thrown"]]
  /\ UNCHANGED <<store, outbox, written, now, ticks>>

\* Mutant: checkDuplicateEmail rethrows instead of returning false.
CheckDuplicate_rethrow(i, queryOk) ==
  /\ inv[i].pc = "query"
  /\ LET items == IF queryOk THEN Items(inv[i].email) ELSE <<>>
         dup == IsDuplicate(queryOk, items)
         tok == IssueToken(inv[i].message, uuidv4(i))
         base == [inv[i] EXCEPT
                    !.queryStatus = IF queryOk THEN "ok" ELSE "error",
                    !.found = Len(items),
                    !.hadRecord = (RecordsFor(inv[i].email) # {}),
                    !.isDuplicate = dup,
                    !.calls = Append(@, "query")]
     IN  inv' = [inv EXCEPT ![i] =
           IF ~queryOk
           THEN [base EXCEPT !.error = "query", !.pc = "thrown"]
           ELSE IF dup
           THEN [base EXCEPT !.result = AlreadySent, !.pc = "returned"]
           ELSE [base EXCEPT !.token = tok,
                             !.link = verificationLink(inv[i].email, tok),
                             !.pc = "send"]]
  /\ UNCHANGED <<store, outbox, written, now, ticks>>

\* Mutant: the duplicate path rewrites the record with a new expiry.
CheckDuplicate_refresh(i, queryOk) ==
  /\ inv[i].pc = "query"
  /\ LET items == IF queryOk THEN Items(inv[i].email) ELSE <<>>
         dup == IsDuplicate(queryOk, items)
         tok == IssueToken(inv[i].message, uuidv4(i))
         base == [inv[i] EXCEPT
                    !.queryStatus = IF queryOk THEN "ok" ELSE "error",
                    !.found = Len(items),
                    !.hadRecord = (RecordsFor(inv[i].email) # {}),
                    !.isDuplicate = dup,
                    !.calls = Append(@, "query")]
     IN  /\ inv' = [inv EXCEPT ![i] =
               IF dup
               THEN [base EXCEPT !.result = AlreadySent, !.pc = "returned"]
               ELSE [base EXCEPT !.token = tok,
                                 !.link = verificationLink(inv[i].email, tok),
                                 !.pc = "send"]]
         /\ store' = IF dup
                     THEN Put(store, TrackItem(inv[i].email, items[1].token, now))
                     ELSE store
  /\ UNCHANGED <<outbox, written, now, ticks>>

\* The Query reaches the table and its response (or rejection) comes back;
\* on a duplicate the handler returns, otherwise it generates the token,
\* builds the link and issues the SES call.
CheckDuplicate(i, queryOk) ==
  /\ inv[i].pc = "query"
  /\ LET items == IF queryOk THEN Items(inv[i].email) ELSE <<>>
         dup == IsDuplicate(queryOk, items)
         tok == IssueToken(inv[i].message, uuidv4(i))
         base == [inv[i] EXCEPT
                    !.queryStatus = IF queryOk THEN "ok" ELSE "error",
                    !.found = Len(items),
                    !.hadRecord = (RecordsFor(inv[i].email) # {}),
                    !.isDuplicate = dup,
                    !.calls = Append(@, "query")]
     IN  inv' = [inv EXCEPT ![i] =
           IF dup
           THEN [base EXCEPT !.result = AlreadySent, !.pc = "returned"]
           ELSE [base EXCEPT !.token = tok,
                             !.link = verificationLink(inv[i].email, tok),
                             !.pc = "send"]]
  /\ UNCHANGED <<store, outbox, written, now, ticks>>

\* Mutant: the SES call is retried after it already succeeded.
SendEmail_twice(i, sendOk) ==
  /\ inv[i].pc = "send"
  /\ IF sendOk
     THEN /\ outbox' = outbox (+) SetToBag(
                 {[to |-> inv[i].email, firstName |-> inv[i].firstName,
                   link |-> inv[i].link, by |-> i, at |-> now]})
                 (+) SetToBag(
                 {[to |-> inv[i].email, firstName |-> inv[i].firstName,
                   link |-> inv[i].link, by |-> i, at |-> now]})
          /\ inv' = [inv EXCEPT ![i] =
                 [@ EXCEPT !.sendStatus = "ok", !.calls = Append(@, "send"),
                           !.item = TrackItem(inv[i].email, inv[i].token, now),
                           !.pc = "put"]]
     ELSE /\ outbox' = outbox
          /\ inv' = [inv EXCEPT ![i] =
                 [@ EXCEPT !.sendStatus = "error", !.calls = Append(@, "send"),
                           !.error = "send", !.pc = "thrown"]]
  /\ UNCHANGED <<store, written, now, ticks>>

\* Mutant: a rejected SES call is swallowed and the record is written anyway.
SendEmail_swallow(i, sendOk) ==
  /\ inv[i].pc = "send"
  /\ outbox' = IF sendOk
               THEN outbox (+) SetToBag(
                 {[to |-> inv[i].email, firstName |-> inv[i].firstName,
                   link |-> inv[i].link, by |-> i, at |-> now]})
               ELSE outbox
  /\ inv' = [inv EXCEPT ![i] =
        [@ EXCEPT !.sendStatus = IF sendOk THEN "ok" ELSE "error",
                  !.calls = Append(@, "send"),
                  !.item = TrackItem(inv[i].email, inv[i].token, now),
                  !.pc = "put"]]
  /\ UNCHANGED <<store, written, now, ticks>>

\* sesClient.send(SendEmailCommand) settles.  If SES accepted the message the
\* handler goes on into trackEmailSent, which builds the Item from the clock
\* and issues the Put; a rejection propagates out of the handler.
SendEmail(i, sendOk) ==
  /\ inv[i].pc = "send"
  /\ IF sendOk
     THEN /\ outbox' = outbox (+) SetToBag(
                 {[to |-> inv[i].email, firstName |-> inv[i].firstName,
                   link |-> inv[i].link, by |-> i, at |-> now]})
          /\ inv' = [inv EXCEPT ![i] =
                 [@ EXCEPT !.sendStatus = "ok", !.calls = Append(@, "send"),
                           !.item = TrackItem(inv[i].email, inv[i].token, now),
                           !.pc = "put"]]
     ELSE /\ outbox' = outbox
          /\ inv' = [inv EXCEPT ![i] =
                 [@ EXCEPT !.sendStatus = "error", !.calls = Append(@, "send"),
                           !.error = "send", !.pc = "thrown"]]
  /\ UNCHANGED <<store, written, now, ticks>>

\* Mutant: a rejected Put is swallowed and the handler reports success.
PutItem_swallow(i, putOk) ==
  /\ inv[i].pc = "put"
  /\ IF putOk
     THEN /\ store' = Put(store, inv[i].item)
          /\ written' = written (+) SetToBag({[item |-> inv[i].item, by |-> i]})
     ELSE UNCHANGED <<store, written>>
  /\ inv' = [inv EXCEPT ![i] =
        [@ EXCEPT !.putStatus = IF putOk THEN "ok" ELSE "error",
                  !.calls = Append(@, "put"),
                  !.result = SentSuccessfully, !.pc = "returned"]]
  /\ UNCHANGED <<outbox, now, ticks>>

\* Mutant: the Put is issued a second time after it succeeded.
PutItem_twice(i, putOk) ==
  /\ inv[i].pc = "put"
  /\ IF putOk
     THEN /\ store' = Put(store, inv[i].item)
          /\ written' = written (+) SetToBag({[item |-> inv[i].item, by |-> i]})
                                 (+) SetToBag({[item |-> inv[i].item, by |-> i]})
          /\ inv' = [inv EXCEPT ![i] =
                 [@ EXCEPT !.putStatus = "ok",
                           !.calls = Append(Append(@, "put"), "put"),
                           !.result = SentSuccessfully, !.pc = "returned"]]
     ELSE /\ UNCHANGED <<store, written>>
          /\ inv' = [inv EXCEPT ![i] =
                 [@ EXCEPT !.putStatus = "error", !.calls = Append(@, "put"),
                           !.error = "put", !.pc = "thrown"]]
  /\ UNCHANGED <<outbox, now, ticks>>

\* docClient.send(PutCommand): the table stores the Item under its key, or
\* the Put rejects and the error propagates out of the handler.
PutItem(i, putOk) ==
  /\ inv[i].pc = "put"
  /\ IF putOk
     THEN /\ store' = Put(store, inv[i].item)
          /\ written' = written (+) SetToBag({[item |-> inv[i].item, by |-> i]})
          /\ inv' = [inv EXCEPT ![i] =
                 [@ EXCEPT !.putStatus = "ok", !.calls = Append(@, "put"),
                           !.result = SentSuccessfully, !.pc = "returned"]]
     ELSE /\ UNCHANGED <<store, written>>
          /\ inv' = [inv EXCEPT ![i] =
                 [@ EXCEPT !.putStatus = "error", !.calls = Append(@, "put"),
                           !.error = "put", !.pc = "thrown"]]
  /\ UNCHANGED <<outbox, now, ticks>>

\* The clock advances.
Tick(dt) ==
  /\ ticks < MaxTicks
  /\ now' = now + dt
  /\ ticks' = ticks + 1
  /\ UNCHANGED <<inv, store, outbox, written>>

\* DynamoDB's TTL sweep removes an Item once the current epoch second is
\* greater than its ttl attribute.
Expire(r) ==
  /\ r \in store
  /\ r.ttl < now \div 1000
  /\ store' = store \ {r}
  /\ UNCHANGED <<inv, outbox, written, now, ticks>>

Next ==
  \/ \E i \in Invocations, msg \in Messages : Invoke(i, msg)
  \/ \E i \in Invocations, queryOk \in BOOLEAN : CheckDuplicate(i, queryOk)
  \/ \E i \in Invocations, sendOk \in BOOLEAN : SendEmail(i, sendOk)
  \/ \E i \in Invocations, putOk \in BOOLEAN : PutItem(i, putOk)
  \/ \E dt \in TickSteps : Tick(dt)
  \/ \E r \in store : Expire(r)

Spec == Init /\ [][Next]_vars

TypeOK ==
  /\ \A i \in Invocations :
        inv[i].pc \in {"idle", "query", "send", "put",
                       "returned", "thrown"}
  /\ now >= StartMs
  /\ ticks \in 0..MaxTicks

\* === observations used by the properties ===
Delivered == {i \in Invocations : inv[i].pc # "idle"}

\* the invocations whose message carried the address e
For(e) == {i \in Delivered : inv[i].message.wellFormed /\ inv[i].message.email = e}

\* number of emails SES accepted from invocation i / for address e
DispatchedBy(i) ==
  BagCardinality([m \in {x \in BagToSet(outbox) : x.by = i} |-> outbox[m]])
DispatchedTo(e) ==
  BagCardinality([m \in {x \in BagToSet(outbox) : x.to = e} |-> outbox[m]])

\* number of Items the table accepted from invocation i
WrittenBy(i) ==
  BagCardinality([w \in {x \in BagToSet(written) : x.by = i} |-> written[w]])

IsPrefix(s, t) == Len(s) <= Len(t) /\ s = SubSeq(t, 1, Len(s))
CallOrder == <<"query", "send", "put">>

\* the deliveries for e so far ran one after the other, every duplicate
\* query succeeded and every Put succeeded
Sequential(e) ==
  \A i, j \in For(e) : i < j => i \in inv[j].after
Undisturbed(e) ==
  /\ Sequential(e)
  /\ \A i \in For(e) : inv[i].queryStatus # "error" /\ inv[i].putStatus # "error"

\* === C1 ===
\* C1 (idempotency): an invocation whose duplicate query succeeded and found
\* at least one record dispatches no email, issues no further call and has
\* returned 200 'Email already sent'.
C1_Idempotency ==
  \A i \in Invocations :
    (inv[i].queryStatus = "ok" /\ inv[i].found > 0) =>
      /\ inv[i].pc = "returned"
      /\ inv[i].result = AlreadySent
      /\ inv[i].calls = <<"query">>
      /\ DispatchedBy(i) = 0
      /\ WrittenBy(i) = 0

C1_Witness ==
  \E i, j \in Invocations :
    /\ i # j
    /\ inv[i].result = SentSuccessfully
    /\ inv[j].email = inv[i].email
    /\ inv[j].queryStatus = "ok" /\ inv[j].found > 0
    /\ inv[j].result = AlreadySent
    /\ DispatchedTo(inv[j].email) = 1

C4_FailOpen ==
  \A i \in Invocations :
    inv[i].queryStatus = "error" =>
      /\ ~inv[i].isDuplicate
      /\ inv[i].pc \in {"send", "put", "returned", "thrown"}
      /\ inv[i].result # AlreadySent
      /\ (inv[i].pc = "thrown" => inv[i].error \in {"send", "put"})
      /\ (inv[i].pc = "send" => inv[i].calls = <<"query">>)
      /\ (inv[i].pc # "send" => IsPrefix(<<"query", "send">>, inv[i].calls))
      /\ (inv[i].sendStatus = "ok" => DispatchedBy(i) = 1)
      /\ (inv[i].pc = "returned" =>
            /\ inv[i].result = SentSuccessfully
            /\ DispatchedBy(i) = 1
            /\ WrittenBy(i) = 1)

\* the query failed while a live record for the address was in the table,
\* and the invocation dispatched a second email and wrote a record
C4_Witness ==
  \E i \in Invocations :
    /\ inv[i].queryStatus = "error"
    /\ inv[i].hadRecord
    /\ ticks = 0
    /\ inv[i].result = SentSuccessfully
    /\ DispatchedTo(inv[i].email) = 2

\* === C5 ===
\* C5 (token passthrough): if the message carries a token, the token the
\* invocation uses for the link and for the tracking record is that token.
C5_TokenPassthrough ==
  \A i \in Invocations :
    (/\ inv[i].pc \in {"send", "put", "returned", "thrown"}
     /\ inv[i].message.wellFormed
     /\ inv[i].message.token # NoToken
     /\ ~inv[i].isDuplicate) =>
      /\ inv[i].token = inv[i].message.token
      /\ inv[i].link = verificationLink(inv[i].email, inv[i].message.token)
      /\ \A w \in BagToSet(written) :
            w.by = i => w.item.token = inv[i].message.token

\* === C6 ===
\* C6 (race bound): when exactly two copies of an event for an address have
\* been delivered, at most two emails are dispatched for that address.
C6_RaceBound ==
  \A e \in Emails :
    Cardinality(For(e)) = 2 => DispatchedTo(e) <= 2

\* both copies passed the guard on an empty table before either wrote, and
\* both dispatched
C6_BothPassedGuard ==
  \E e \in Emails : \E i, j \in For(e) :
    /\ i # j
    /\ For(e) = {i, j}
    /\ \A k \in {i, j} :
          /\ inv[k].queryStatus = "ok"
          /\ inv[k].found = 0
          /\ ~inv[k].hadRecord
          /\ inv[k].pc = "put"
    /\ RecordsFor(e) = {}
    /\ WrittenBy(i) = 0 /\ WrittenBy(j) = 0
    /\ DispatchedTo(e) = 2

\* === C7 ===
\* C7 (write-failure gap): an invocation whose Put failed has thrown, has
\* dispatched exactly one email and has left no record; a later delivery for
\* the same address (the only other one) whose query succeeds is not a
\* duplicate, goes on to the dispatch, and if SES accepts it two emails have
\* been dispatched for the address.
C7_WriteFailureGap ==
  \A i \in Invocations :
    inv[i].putStatus = "error" =>
      /\ inv[i].pc = "thrown"
      /\ inv[i].error = "put"
      /\ inv[i].result = NoResult
      /\ DispatchedBy(i) = 1
      /\ WrittenBy(i) = 0
      /\ \A r \in store : r.token # inv[i].token
      /\ \A j \in For(inv[i].email) :
            (/\ i \in inv[j].after
             /\ For(inv[i].email) = {i, j}
             /\ inv[j].queryStatus = "ok") =>
               /\ ~inv[j].isDuplicate
               /\ inv[j].found = 0
               /\ inv[j].pc \in {"send", "put", "returned", "thrown"}
               /\ (inv[j].sendStatus = "ok" => DispatchedTo(inv[i].email) = 2)

C7_Witness ==
  \E i, j \in Invocations :
    /\ inv[i].putStatus = "error"
    /\ inv[i].pc = "thrown"
    /\ i \in inv[j].after
    /\ inv[j].queryStatus = "ok"
    /\ inv[j].sendStatus = "ok"
    /\ DispatchedBy(i) = 1 /\ DispatchedBy(j) = 1
    /\ DispatchedTo(inv[i].email) = 2

\* === C8 ===
\* C8 (malformed input): an invocation whose message cannot be parsed has
\* thrown without issuing any remote call: no query, no email, no record.
C8_MalformedFailFast ==
  \A i \in Delivered :
    ~inv[i].message.wellFormed =>
      /\ inv[i].pc = "thrown"
      /\ inv[i].error = "parse"
      /\ inv[i].result = NoResult
      /\ inv[i].calls = <<>>
      /\ inv[i].queryStatus = "none"
      /\ inv[i].sendStatus = "none"
      /\ inv[i].putStatus = "none"
      /\ DispatchedBy(i) = 0
      /\ WrittenBy(i) = 0

C8_Witness ==
  \E i \in Delivered :
    /\ ~inv[i].message.wellFormed
    /\ inv[i].parseStatus = "error"
    /\ inv[i].pc = "thrown"
    /\ outbox = EmptyBag /\ written = EmptyBag

\* === C9 ===
\* C9 (outcome contract): a finished invocation has either returned one of
\* the two 200 results or thrown, never both and never anything else; it has
\* thrown exactly when parsing, the dispatch or the Put failed; an invocation
\* still running has no outcome.
Failed(i) ==
  \/ inv[i].parseStatus = "error"
  \/ inv[i].sendStatus = "error"
  \/ inv[i].putStatus = "error"

C9_OutcomeContract ==
  \A i \in Invocations :
    /\ (inv[i].pc = "returned" =>
          /\ inv[i].result \in {AlreadySent, SentSuccessfully}
          /\ inv[i].error = "none")
    /\ (inv[i].pc = "thrown" =>
          /\ inv[i].result = NoResult
          /\ inv[i].error \in {"parse", "send", "put"})
    /\ (inv[i].pc \notin Terminal =>
          inv[i].result = NoResult /\ inv[i].error = "none" /\ ~Failed(i))
    /\ (inv[i].pc \in Terminal => (inv[i].pc = "thrown" <=> Failed(i)))
    /\ (inv[i].error = "parse" <=> inv[i].parseStatus = "error")
    /\ (inv[i].error = "send" <=> inv[i].sendStatus = "error")
    /\ (inv[i].error = "put" <=> inv[i].putStatus = "error")

\* the query failed and the invocation nevertheless returned normally
C9_Witness ==
  \E i, j \in Invocations :
    /\ inv[i].queryStatus = "error"
    /\ inv[i].pc = "returned" /\ inv[i].result = SentSuccessfully
    /\ inv[j].queryStatus = "ok"
    /\ inv[j].pc = "thrown" /\ inv[j].error = "send"

LinkToken(link) ==
  LET amps == {k \in 1..Len(link) : link[k] = "&"}
  IN  IF amps = {} THEN <<>>
      ELSE LET a == CHOOSE k \in amps : \A j \in amps : k <= j
           IN  IF /\ Len(link) >= a + 6
                  /\ SubSeq(link, a + 1, a + 6) = <<"t","o","k","e","n","=">>
               THEN SubSeq(link, a + 7, Len(link))
               ELSE <<>>

\* C11 (token consistency): every record the table accepted from an
\* invocation is keyed by the email of that invocation's event and carries
\* the token embedded in the link of the email that invocation dispatched to
\* that address.
C11_TokenConsistency ==
  \A w \in BagToSet(written) :
    /\ w.item.email = inv[w.by].message.email
    /\ w.item.token # <<>>
    /\ \E m \in BagToSet(outbox) : m.by = w.by
    /\ \A m \in BagToSet(outbox) :
          m.by = w.by => m.to = w.item.email /\ LinkToken(m.link) = w.item.token

\* an event met an empty table; its email and its record carry one token
C11_Witness ==
  \E i \in Invocations :
    /\ inv[i].queryStatus = "ok" /\ inv[i].found = 0
    /\ inv[i].result = SentSuccessfully
    /\ RecordsFor(inv[i].message.email) = {inv[i].item}
    /\ \E m \in BagToSet(outbox) :
          m.by = i /\ LinkToken(m.link) = inv[i].item.token

LinkHead ==
  <<"h","t","t","p","s",":","/","/",
    "d","e","v",".","r","i","t","i","m","o","r","a","d","i","y","a",".","m","e",
    "/","v","1","/","u","s","e","r","/","v","e","r","i","f","y",
    "?","e","m","a","i","l","=">>

EncodedEmail(e) ==
  CASE e = EmailA -> <<"a","%","4","0","b",".","c","o","m">>
    [] e = EmailB -> <<"j","%","2","B","k","%","4","0","x",".","i","o">>

C15_RecordImmutable ==
  [][\A r \in store :
        \/ r \in store'
        \/ (r.ttl < now \div 1000 /\ \A q \in store' : q.email # r.email)]_vars

\* === redelivery ===
\* The platform delivers one registration event, delivers it again whenever
\* the handler threw, and may deliver further copies; the remote services
\* fail only finitely often; the clock stays within the retention window.
Failures ==
  Cardinality({i \in Invocations : inv[i].queryStatus = "error"})
  + Cardinality({i \in Invocations : inv[i].sendStatus = "error"})
  + Cardinality({i \in Invocations : inv[i].putStatus = "error"})

MaxFailures == MaxDeliveries - 1

MayFail(ok) == ok \/ Failures < MaxFailures

FirstDelivery ==
  \E msg \in Messages : msg.wellFormed /\ Invoke(1, msg)

Redeliver(i) ==
  /\ i > 1
  /\ inv[i - 1].pc = "thrown"
  /\ Invoke(i, inv[i - 1].message)

FurtherDelivery(i) ==
  /\ i > 1
  /\ inv[i - 1].pc \notin {"idle", "thrown"}
  /\ Invoke(i, inv[i - 1].message)

HandlerStep ==
  \/ \E i \in Invocations, queryOk \in BOOLEAN :
        MayFail(queryOk) /\ CheckDuplicate(i, queryOk)
  \/ \E i \in Invocations, sendOk \in BOOLEAN :
        MayFail(sendOk) /\ SendEmail(i, sendOk)
  \/ \E i \in Invocations, putOk \in BOOLEAN :
        MayFail(putOk) /\ PutItem(i, putOk)

LiveNext ==
  \/ FirstDelivery
  \/ \E i \in Invocations : Redeliver(i)
  \/ \E i \in Invocations : FurtherDelivery(i)
  \/ HandlerStep

LiveSpec ==
  /\ Init
  /\ [][LiveNext]_vars
  /\ WF_vars(\E i \in Invocations : Redeliver(i))
  /\ WF_vars(HandlerStep)

\* === C16 ===
\* C16 (liveness under redelivery): once the event has been delivered,
\* eventually an email has been dispatched for its address and a record for
\* it is in the table; and a further delivery that starts after an
\* invocation returned 'Email sent successfully' ends, if its duplicate query
\* succeeds, with 'Email already sent'.
C16_Delivered(e) ==
  DispatchedTo(e) >= 1 /\ RecordsFor(e) # {}

C16_LivenessUnderRedelivery ==
  /\ \A e \in Emails : (For(e) # {}) ~> C16_Delivered(e)
  /\ \A i, j \in Invocations :
        (/\ inv[i].result = SentSuccessfully
         /\ i \in inv[j].after
         /\ inv[j].pc = "query")
        ~> (inv[j].result = AlreadySent \/ inv[j].queryStatus = "error")

\* a delivery threw, the event was delivered again, and that delivery
\* dispatched the email and wrote the record
C16_Witness ==
  \E i, j \in Invocations :
    /\ i < j
    /\ inv[i].pc = "thrown"
    /\ inv[j].message = inv[i].message
    /\ inv[j].result = SentSuccessfully
    /\ C16_Delivered(inv[j].email)

C18_StoredTokenMatchesLinks ==
  \A r \in store : \A m \in BagToSet(outbox) :
    (m.to = r.email /\ m.at >= r.sentAt) => LinkToken(m.link) = r.token

\* === C19 ===
\* C19 (duplicate path is read-only): the step in which an invocation takes
\* the 'Email already sent' path issues the query only and leaves the table,
\* the accepted Items and the dispatched emails as they were; afterwards the
\* invocation does nothing more.
C19_DuplicatePathReadOnly ==
  [][\A i \in Invocations :
        /\ (inv[i].result # AlreadySent /\ inv'[i].result = AlreadySent) =>
              /\ store' = store
              /\ written' = written
              /\ outbox' = outbox
              /\ inv'[i].calls = <<"query">>
              /\ inv'[i].pc = "returned"
              /\ inv'[i].item = NoItem
        /\ (inv[i].result = AlreadySent => inv'[i] = inv[i])]_vars

\* a delivery was suppressed and the record it found is still the one the
\* first delivery wrote, although the clock has advanced
C19_Witness ==
  \E i, j \in Invocations :
    /\ inv[i].result = SentSuccessfully
    /\ inv[j].result = AlreadySent
    /\ inv[j].email = inv[i].email
    /\ ticks > 0
    /\ RecordsFor(inv[i].email) = {inv[i].item}
    /\ inv[i].item.sentAt = StartMs

====
